---- MODULE Spec2Model ----
(***************************************************************************)
(* Model of the Jetpack REST API client, _inc/client/rest-api/index.js.    *)
(*                                                                         *)
(* One call of an endpoint method is a promise chain: the transport        *)
(* (window.wp.apiFetch) settles a promise, and the handlers attached with  *)
(* .then / .catch run one after the other on the settlement of the         *)
(* previous one.  The model runs one call at a time (calls share no        *)
(* state) and records every handler invocation in `trace`.                 *)
(***************************************************************************)
EXTENDS Integers, Sequences, FiniteSets, TLC

VARIABLES
    pc,        \* "idle" | "pending" (apiFetch issued) | "chain" | "settled"
    method,    \* name of the endpoint method being called
    idx,       \* position of the next handler in the method's chain
    promise,   \* settlement of the promise at the current point of the chain
    trace      \* handler invocations so far: <<[fn, arg, out], ...>>

vars == <<pc, method, idx, promise, trace>>

-----------------------------------------------------------------------------
(* Bounds and sample inputs                                                *)

\* longest text handed to JSON.parse by the `data` re-decode
MaxDataLen == 2

\* characters of a JSON text, as far as the model's JSON.parse looks at them
Tokens == {" ", "{", "}"}

Statuses == {199, 200, 299, 300, 404, 500}

Urls == {"https://x/wp-json", "https://x/login"}

\* exceptions the transport rejects with (shape: name and message)
TransportExceptions ==
    { [name |-> "TypeError", message |-> "Failed to fetch"],
      [name |-> "Error",     message |-> "too many redirects"] }

-----------------------------------------------------------------------------
(* JSON values.  Every value has the same shape so that values compare:    *)
(* t is its type, and the other fields are the members the client looks    *)
(* at (absent for a value that is not an object).  Records list their      *)
(* fields in the order TLC keeps them in.                                  *)

NoString  == [present |-> FALSE, value |-> ""]
NoData    == [present |-> FALSE, text |-> <<>>]
NoSection == [present |-> FALSE, hasResponse |-> FALSE]

JsonOfType(t) ==
    [message |-> NoString, t |-> t, data |-> NoData,
     general |-> NoSection, week |-> NoSection, month |-> NoSection]

Undefined   == JsonOfType("undefined")   \* JavaScript undefined: no value
JsonNull    == JsonOfType("null")
JsonNumber  == JsonOfType("number")
EmptyObject == JsonOfType("object")      \* {}

Texts == UNION { [1..n -> Tokens] : n \in 0..MaxDataLen }

\* a section of a stats payload: absent, {} or {response: "error"}
Sections ==
    { NoSection,
      [present |-> TRUE, hasResponse |-> FALSE],
      [present |-> TRUE, hasResponse |-> TRUE] }

\* the decoded bodies a server may answer with
JsonValues ==
    {JsonNull, JsonNumber}
    \cup { [EmptyObject EXCEPT !.message = [present |-> TRUE, value |-> s]]
             : s \in {"bad"} }
    \cup { [EmptyObject EXCEPT !.data = [present |-> TRUE, text |-> txt]]
             : txt \in Texts }
    \cup { [EmptyObject EXCEPT !.general = g, !.week = w, !.month = m]
             : g \in Sections, w \in Sections, m \in Sections }

-----------------------------------------------------------------------------
(* Response descriptors and errors                                         *)

\* body.ok: whether response.json() can decode the body
Bodies == { [value |-> Undefined, ok |-> FALSE] }
          \cup { [value |-> v, ok |-> TRUE] : v \in JsonValues }

Responses ==
    [status : Statuses, redirected : BOOLEAN, url : Urls, body : Bodies]

NoResponse ==
    [status |-> 0, redirected |-> FALSE, url |-> "",
     body |-> [value |-> Undefined, ok |-> FALSE]]

\* an Error object: its name, its message and its `response` property
MakeError(name, message, response) ==
    [name |-> name, message |-> message, response |-> response]

NoError == MakeError("", "", Undefined)

\* Settlements of a promise.  `read` tells whether the handler that returned
\* the promise called response.json(), which consumes the body.
Settlement(state, kind, r, v, e) ==
    [response |-> r, state |-> state, kind |-> kind, json |-> v, error |-> e,
     read |-> FALSE]

Pending            == Settlement("pending", "none", NoResponse, Undefined, NoError)
ResolveResponse(r) == Settlement("fulfilled", "response", r, Undefined, NoError)
ResolveJson(v)     == Settlement("fulfilled", "json", NoResponse, v, NoError)
Reject(e)          == Settlement("rejected", "error", NoResponse, Undefined, e)

Read(settlement) == [settlement EXCEPT !.read = TRUE]

-----------------------------------------------------------------------------
(* JavaScript built-ins the client calls                                   *)

\* String(x) of an optional string, as a template literal renders it
ToStr(s) == IF s.present THEN s.value ELSE "undefined"

\* String(b) of a boolean
BoolToStr(b) == IF b THEN "true" ELSE "false"

RECURSIVE TrimLeft(_)
TrimLeft(txt) ==
    IF txt # <<>> /\ Head(txt) = " " THEN TrimLeft(Tail(txt)) ELSE txt

RECURSIVE TrimRight(_)
TrimRight(txt) ==
    IF txt # <<>> /\ txt[Len(txt)] = " "
    THEN TrimRight(SubSeq(txt, 1, Len(txt) - 1))
    ELSE txt

SyntaxError == MakeError("SyntaxError", "Unexpected token", Undefined)
TypeErrorNull == MakeError("TypeError", "Cannot read property of null", Undefined)

\* JSON.parse(text): whitespace around a value is skipped, then exactly one
\* value must remain; over these characters that is an object with no members
\* (whitespace allowed between its braces).  An absent argument is the text
\* "undefined".
JSONParse(data) ==
    LET core == TrimRight(TrimLeft(data.text)) IN
    IF ~data.present THEN Reject(SyntaxError)
    ELSE IF /\ Len(core) >= 2
            /\ core[1] = "{"
            /\ core[Len(core)] = "}"
            /\ \A k \in 2..(Len(core) - 1) : core[k] = " "
         THEN ResolveJson(EmptyObject)
    ELSE Reject(SyntaxError)

\* response.json(): decodes the body
ResponseJson(response) ==
    IF response.body.ok THEN Read(ResolveJson(response.body.value))
    ELSE Read(Reject(SyntaxError))

-----------------------------------------------------------------------------
(* The custom error classes (createCustomError): new X(arg) has name X and  *)
(* message String(arg), or "" when no argument is given.                   *)

JsonParseError == MakeError("JsonParseError", "", Undefined)
JsonParseAfterRedirectError(arg) == MakeError("JsonParseAfterRedirectError", arg, Undefined)
Api404Error == MakeError("Api404Error", "", Undefined)
Api404AfterRedirectError(arg) == MakeError("Api404AfterRedirectError", arg, Undefined)
FetchNetworkError == MakeError("FetchNetworkError", "", Undefined)

-----------------------------------------------------------------------------
(* The handlers.  Each yields the settlement of the promise it returns.    *)

\* checkStatus with the success range closed at 300
checkStatusInclusive(response) ==
    IF response.status >= 200 /\ response.status <= 300
    THEN ResolveResponse(response)
    ELSE IF response.status = 404
    THEN IF response.redirected
         THEN Reject(Api404AfterRedirectError(BoolToStr(response.redirected)))
         ELSE Reject(Api404Error)
    ELSE LET decoded == ResponseJson(response)
             json    == decoded.json
         IN  IF decoded.state = "rejected" THEN decoded
             ELSE IF json.t = "null" THEN Read(Reject(TypeErrorNull))
             ELSE Read(Reject(MakeError("Error",
                                        ToStr(json.message) \o " (Status "
                                            \o ToString(response.status) \o ")",
                                        json)))

checkStatus(response) ==
    IF response.status >= 200 /\ response.status < 300
    THEN ResolveResponse(response)
    ELSE IF response.status = 404
    THEN IF response.redirected
         THEN Reject(Api404AfterRedirectError(BoolToStr(response.redirected)))
         ELSE Reject(Api404Error)
    ELSE LET decoded == ResponseJson(response)
             json    == decoded.json
         IN  IF decoded.state = "rejected" THEN decoded
             ELSE IF json.t = "null" THEN Read(Reject(TypeErrorNull))
             ELSE Read(Reject(MakeError("Error",
                                        ToStr(json.message) \o " (Status "
                                            \o ToString(response.status) \o ")",
                                        json)))

\* catchJsonParseError handing the redirect flag, not the URL, to the error
catchJsonParseErrorFlag(e, redirected, url) ==
    IF redirected
    THEN Reject(JsonParseAfterRedirectError(BoolToStr(redirected)))
    ELSE Reject(JsonParseError)

catchJsonParseError(e, redirected, url) ==
    IF redirected
    THEN Reject(JsonParseAfterRedirectError(url))
    ELSE Reject(JsonParseError)

parseJsonResponse(response) ==
    LET decoded == ResponseJson(response) IN
    IF decoded.state = "rejected"
    THEN Read(catchJsonParseError(decoded.error, response.redirected, response.url))
    ELSE decoded

\* catchNetworkErrors throwing the exception it caught
catchNetworkErrorsRethrow(e) == Reject(e)

\* the rejection reason e is passed by .catch and ignored
catchNetworkErrors(e) == Reject(FetchNetworkError)

\* body => JSON.parse( body.data )
parseBodyData(body) ==
    IF body.t = "null" THEN Reject(TypeErrorNull)
    ELSE JSONParse(body.data)

\* x && x.response === undefined, for a section x of the stats payload
SectionOk(section) == section.present /\ ~section.hasResponse

handleStatsResponseError(statsData) ==
    IF statsData.t = "null" THEN Reject(TypeErrorNull)
    ELSE LET responseOk == \/ SectionOk(statsData.general)
                           \/ SectionOk(statsData.week)
                           \/ SectionOk(statsData.month)
         IN  ResolveJson(IF responseOk THEN statsData ELSE EmptyObject)

\* handlers attached with .catch; the others are attached with .then
CatchHandlers == {"catchNetworkErrors"}

\* the handlers getRequest / postRequest attach to the transport's promise
\* getRequest with the .catch of postRequest
getRequestCaught == <<"catchNetworkErrors">>

getRequest == <<>>

postRequest == <<"catchNetworkErrors">>

-----------------------------------------------------------------------------
(* The endpoint methods: the request function each one calls, whether it   *)
(* supplies a body, and the handlers it attaches with .then, in order.     *)

Endpoint(request, body, then) == [body |-> body, request |-> request, then |-> then]

fetchSiteConnectionStatus ==
    Endpoint("getRequest", FALSE, <<"parseJsonResponse">>)

fetchUserConnectionData ==
    Endpoint("getRequest", FALSE, <<"parseJsonResponse">>)

fetchUserTrackingSettings ==
    Endpoint("getRequest", FALSE, <<"checkStatus", "parseJsonResponse">>)

updateUserTrackingSettings ==
    Endpoint("postRequest", TRUE, <<"checkStatus", "parseJsonResponse">>)

disconnectSite ==
    Endpoint("postRequest", TRUE, <<"checkStatus", "parseJsonResponse">>)

fetchConnectUrl ==
    Endpoint("getRequest", FALSE, <<"checkStatus", "parseJsonResponse">>)

unlinkUser ==
    Endpoint("postRequest", TRUE, <<"checkStatus", "parseJsonResponse">>)

jumpStart ==
    Endpoint("postRequest", TRUE, <<"checkStatus", "parseJsonResponse">>)

fetchModules ==
    Endpoint("getRequest", FALSE, <<"checkStatus", "parseJsonResponse">>)

fetchModule ==
    Endpoint("getRequest", FALSE, <<"checkStatus", "parseJsonResponse">>)

activateModule ==
    Endpoint("postRequest", TRUE, <<"checkStatus", "parseJsonResponse">>)

\* deactivateModule with the pipeline of its siblings
deactivateModulePiped ==
    Endpoint("postRequest", TRUE, <<"checkStatus", "parseJsonResponse">>)

deactivateModule ==
    Endpoint("postRequest", TRUE, <<>>)

updateModuleOptions ==
    Endpoint("postRequest", TRUE, <<"checkStatus", "parseJsonResponse">>)

updateSettings ==
    Endpoint("postRequest", TRUE, <<"checkStatus", "parseJsonResponse">>)

getProtectCount ==
    Endpoint("getRequest", FALSE, <<"checkStatus", "parseJsonResponse">>)

resetOptions ==
    Endpoint("postRequest", TRUE, <<"checkStatus", "parseJsonResponse">>)

getVaultPressData ==
    Endpoint("getRequest", FALSE, <<"checkStatus", "parseJsonResponse">>)

getAkismetData ==
    Endpoint("getRequest", FALSE, <<"checkStatus", "parseJsonResponse">>)

checkAkismetKey ==
    Endpoint("getRequest", FALSE, <<"checkStatus", "parseJsonResponse">>)

checkAkismetKeyTyped ==
    Endpoint("postRequest", TRUE, <<"checkStatus", "parseJsonResponse">>)

fetchStatsData ==
    Endpoint("getRequest", FALSE, <<"checkStatus", "parseJsonResponse", "handleStatsResponseError">>)

getPluginUpdates ==
    Endpoint("getRequest", FALSE, <<"checkStatus", "parseJsonResponse">>)

getPlans ==
    Endpoint("getRequest", FALSE, <<"checkStatus", "parseJsonResponse">>)

fetchSettings ==
    Endpoint("getRequest", FALSE, <<"checkStatus", "parseJsonResponse">>)

updateSetting ==
    Endpoint("postRequest", TRUE, <<"checkStatus", "parseJsonResponse">>)

fetchSiteData ==
    Endpoint("getRequest", FALSE, <<"checkStatus", "parseJsonResponse", "parseBodyData">>)

fetchSiteFeatures ==
    Endpoint("getRequest", FALSE, <<"checkStatus", "parseJsonResponse", "parseBodyData">>)

fetchRewindStatus ==
    Endpoint("getRequest", FALSE, <<"checkStatus", "parseJsonResponse", "parseBodyData">>)

dismissJetpackNotice ==
    Endpoint("postRequest", TRUE, <<"checkStatus", "parseJsonResponse">>)

fetchPluginsData ==
    Endpoint("getRequest", FALSE, <<"checkStatus", "parseJsonResponse">>)

fetchVerifySiteGoogleStatus ==
    Endpoint("getRequest", FALSE, <<"checkStatus", "parseJsonResponse">>)

verifySiteGoogle ==
    Endpoint("postRequest", FALSE, <<"checkStatus", "parseJsonResponse">>)

methods ==
    [ fetchSiteConnectionStatus |-> fetchSiteConnectionStatus,
      fetchUserConnectionData |-> fetchUserConnectionData,
      fetchUserTrackingSettings |-> fetchUserTrackingSettings,
      updateUserTrackingSettings |-> updateUserTrackingSettings,
      disconnectSite |-> disconnectSite,
      fetchConnectUrl |-> fetchConnectUrl,
      unlinkUser |-> unlinkUser,
      jumpStart |-> jumpStart,
      fetchModules |-> fetchModules,
      fetchModule |-> fetchModule,
      activateModule |-> activateModule,
      deactivateModule |-> deactivateModule,
      updateModuleOptions |-> updateModuleOptions,
      updateSettings |-> updateSettings,
      getProtectCount |-> getProtectCount,
      resetOptions |-> resetOptions,
      getVaultPressData |-> getVaultPressData,
      getAkismetData |-> getAkismetData,
      checkAkismetKey |-> checkAkismetKey,
      checkAkismetKeyTyped |-> checkAkismetKeyTyped,
      fetchStatsData |-> fetchStatsData,
      getPluginUpdates |-> getPluginUpdates,
      getPlans |-> getPlans,
      fetchSettings |-> fetchSettings,
      updateSetting |-> updateSetting,
      fetchSiteData |-> fetchSiteData,
      fetchSiteFeatures |-> fetchSiteFeatures,
      fetchRewindStatus |-> fetchRewindStatus,
      dismissJetpackNotice |-> dismissJetpackNotice,
      fetchPluginsData |-> fetchPluginsData,
      fetchVerifySiteGoogleStatus |-> fetchVerifySiteGoogleStatus,
      verifySiteGoogle |-> verifySiteGoogle ]

MethodNames == DOMAIN methods

\* all the handlers of a call of method m, in the order they are attached
Chain(m) ==
    (IF methods[m].request = "postRequest" THEN postRequest ELSE getRequest)
        \o methods[m].then

-----------------------------------------------------------------------------
(* The state machine                                                       *)

Init ==
    /\ pc = "idle"
    /\ method = "none"
    /\ idx = 0
    /\ promise = Pending
    /\ trace = <<>>

\* the caller invokes an endpoint method: the request is issued.  Calls share
\* no state, so a behaviour follows one call from its issue to its settlement.
Call(m) ==
    /\ pc = "idle"
    /\ pc' = "pending"
    /\ method' = m
    /\ idx' = 0
    /\ promise' = Pending
    /\ trace' = <<>>

Transport(out) ==
    /\ pc = "pending"
    /\ pc' = "chain"
    /\ idx' = 1
    /\ promise' = out
    /\ trace' = Append(trace, [arg |-> promise, out |-> out, fn |-> "apiFetch"])
    /\ UNCHANGED method

\* the transport answers with a response descriptor
ApiFetchResponds ==
    \E r \in Responses : Transport(ResolveResponse(r))

\* the transport fails with an exception
ApiFetchThrows ==
    \E e \in TransportExceptions :
        Transport(Reject(MakeError(e.name, e.message, Undefined)))

\* the next handler of the chain is fn and the promise settled its way
Applies(fn) ==
    /\ pc = "chain"
    /\ idx <= Len(Chain(method))
    /\ Chain(method)[idx] = fn
    /\ promise.state = (IF fn \in CatchHandlers THEN "rejected" ELSE "fulfilled")

Run(fn, out) ==
    /\ promise' = out
    /\ trace' = Append(trace, [arg |-> promise, out |-> out, fn |-> fn])
    /\ idx' = idx + 1
    /\ UNCHANGED <<pc, method>>

CatchNetworkErrors ==
    /\ Applies("catchNetworkErrors")
    /\ Run("catchNetworkErrors", catchNetworkErrors(promise.error))

ThenCheckStatus ==
    /\ Applies("checkStatus")
    /\ Run("checkStatus", checkStatus(promise.response))

ThenParseJsonResponse ==
    /\ Applies("parseJsonResponse")
    /\ Run("parseJsonResponse", parseJsonResponse(promise.response))

ThenParseBodyData ==
    /\ Applies("parseBodyData")
    /\ Run("parseBodyData", parseBodyData(promise.json))

ThenHandleStatsResponseError ==
    /\ Applies("handleStatsResponseError")
    /\ Run("handleStatsResponseError", handleStatsResponseError(promise.json))

\* a .then handler is skipped by a rejection, a .catch handler by a value
PassThrough ==
    /\ pc = "chain"
    /\ idx <= Len(Chain(method))
    /\ ~Applies(Chain(method)[idx])
    /\ idx' = idx + 1
    /\ UNCHANGED <<pc, method, promise, trace>>

\* the end of the chain: the caller's future settles as the last promise did
Settle ==
    /\ pc = "chain"
    /\ idx > Len(Chain(method))
    /\ pc' = "settled"
    /\ UNCHANGED <<method, idx, promise, trace>>

Next ==
    \/ \E m \in MethodNames : Call(m)
    \/ ApiFetchResponds
    \/ ApiFetchThrows
    \/ CatchNetworkErrors
    \/ ThenCheckStatus
    \/ ThenParseJsonResponse
    \/ ThenParseBodyData
    \/ ThenHandleStatsResponseError
    \/ PassThrough
    \/ Settle

Spec == Init /\ [][Next]_vars

TypeOK ==
    /\ pc \in {"idle", "pending", "chain", "settled"}
    /\ method \in MethodNames \cup {"none"}
    /\ idx \in 0..5
    /\ promise.state \in {"pending", "fulfilled", "rejected"}
    /\ Len(trace) <= 5

-----------------------------------------------------------------------------
(* Vocabulary of the properties                                            *)

TypedNames ==
    {"Api404Error", "Api404AfterRedirectError", "JsonParseError",
     "JsonParseAfterRedirectError", "FetchNetworkError"}

\* the status-coded generic error: an Error carrying a decoded payload
IsGenericApiError(e) == e.name = "Error" /\ e.response # Undefined

IsTypedFailure(e) == e.name \in TypedNames \/ IsGenericApiError(e)

Settled == pc = "settled"

\* the settlement of the transport's promise, once there is one
Answered == Len(trace) >= 1
TransportOutcome == trace[1].out

\* the invocations of handler fn in this call
Invocations(fn) == { i \in DOMAIN trace : trace[i].fn = fn }

Ran(fn) == Invocations(fn) # {}

SuccessRange == 200..299

-----------------------------------------------------------------------------
(* C1: every call of a method other than deactivateModule settles either   *)
(* by resolving with a parsed payload or by rejecting with a typed         *)
(* failure; never with a raw response or an unclassified raw exception.    *)
C1_PayloadOrTypedFailure ==
    (Settled /\ method # "deactivateModule") =>
        \/ promise.state = "fulfilled" /\ promise.kind = "json"
        \/ promise.state = "rejected" /\ IsTypedFailure(promise.error)

(* C2: checkStatus on a 404 rejects with Api404Error carrying nothing when *)
(* the response was not redirected, and with Api404AfterRedirectError      *)
(* carrying exactly response.url when it was.                              *)
C2_NotFoundCarriesUrl ==
    \A i \in Invocations("checkStatus") :
        LET response == trace[i].arg.response
            out      == trace[i].out
        IN  response.status = 404 =>
                /\ out.state = "rejected"
                /\ out.error.name = (IF response.redirected
                                     THEN "Api404AfterRedirectError"
                                     ELSE "Api404Error")
                /\ out.error.message = (IF response.redirected
                                        THEN response.url ELSE "")

(* C3: for every method other than deactivateModule, a response whose      *)
(* status is outside [200,300) never reaches parseJsonResponse and the     *)
(* call never resolves: it rejects with the failure checkStatus assigns.   *)
C3_ClassifierBeforeParser ==
    (/\ Answered
     /\ method # "deactivateModule"
     /\ TransportOutcome.state = "fulfilled"
     /\ TransportOutcome.response.status \notin SuccessRange) =>
        /\ ~Ran("parseJsonResponse")
        /\ Settled => /\ promise.state = "rejected"
                      /\ \E i \in Invocations("checkStatus") :
                             promise = trace[i].out

(* C4: checkStatus on a status outside [200,300) other than 404 whose body *)
(* decodes as JSON rejects with a generic Error whose message is           *)
(* "<body.message> (Status <status>)" and whose `response` is the decoded  *)
(* body; parseJsonResponse does not run afterwards.                        *)
C4_GenericErrorMessage ==
    \A i \in Invocations("checkStatus") :
        LET response == trace[i].arg.response
            out      == trace[i].out
        IN  (/\ response.status \notin SuccessRange
             /\ response.status # 404
             /\ response.body.ok) =>
                /\ out.state = "rejected"
                /\ out.error.name = "Error"
                /\ out.error.message =
                       ToStr(response.body.value.message) \o " (Status "
                           \o ToString(response.status) \o ")"
                /\ out.error.response = response.body.value
                /\ \A j \in Invocations("parseJsonResponse") : j < i

(* Lemma for the divergence of C4: for every decoded body other than null, *)
(* checkStatus does reject with the generic Error as C4 describes.         *)
C4_NonNullBody ==
    \A i \in Invocations("checkStatus") :
        LET response == trace[i].arg.response
            out      == trace[i].out
        IN  (/\ response.status \notin SuccessRange
             /\ response.status # 404
             /\ response.body.ok
             /\ response.body.value # JsonNull) =>
                /\ out.state = "rejected"
                /\ out.error.name = "Error"
                /\ out.error.message =
                       ToStr(response.body.value.message) \o " (Status "
                           \o ToString(response.status) \o ")"
                /\ out.error.response = response.body.value
                /\ \A j \in Invocations("parseJsonResponse") : j < i

(* C5: parseJsonResponse on a body that is not valid JSON rejects with      *)
(* JsonParseError carrying nothing when the response was not redirected,   *)
(* and with JsonParseAfterRedirectError carrying exactly response.url when *)
(* it was; on a valid body it resolves with the decoded value verbatim.    *)
C5_ParseJsonResponse ==
    \A i \in Invocations("parseJsonResponse") :
        LET response == trace[i].arg.response
            out      == trace[i].out
        IN  IF response.body.ok
            THEN /\ out.state = "fulfilled"
                 /\ out.kind = "json"
                 /\ out.json = response.body.value
            ELSE /\ out.state = "rejected"
                 /\ out.error.name = (IF response.redirected
                                      THEN "JsonParseAfterRedirectError"
                                      ELSE "JsonParseError")
                 /\ out.error.message = (IF response.redirected
                                         THEN response.url ELSE "")
                 /\ out.error.response = Undefined

C5_Witness ==
    \E i \in Invocations("parseJsonResponse") :
        /\ ~trace[i].arg.response.body.ok
        /\ trace[i].arg.response.redirected
        /\ trace[i].out.error.name = "JsonParseAfterRedirectError"

(* C6: when the transport fails during a call issued through postRequest   *)
(* with a body, the call rejects with a FetchNetworkError carrying nothing *)
(* of the raw exception, and neither checkStatus nor parseJsonResponse     *)
(* runs for that call.                                                     *)
C6_NetworkFailureNormalized ==
    (/\ Answered
     /\ methods[method].request = "postRequest"
     /\ methods[method].body
     /\ TransportOutcome.state = "rejected") =>
        /\ ~Ran("checkStatus")
        /\ ~Ran("parseJsonResponse")
        /\ Settled => promise = Reject(FetchNetworkError)

C6_Witness ==
    /\ Settled
    /\ methods[method].request = "postRequest"
    /\ methods[method].body
    /\ TransportOutcome.state = "rejected"
    /\ Ran("catchNetworkErrors")

(* C7: handleStatsResponseError on an object returns the payload unchanged *)
(* only if it has a general, week or month section and every section       *)
(* present carries no `response`; if any section carries a `response`, or  *)
(* none of the three is present, it returns {}.  It never rejects.         *)
C7_StatsRepair ==
    \A i \in Invocations("handleStatsResponseError") :
        LET statsData == trace[i].arg.json
            out       == trace[i].out
            sections  == {statsData.general, statsData.week, statsData.month}
            present   == { x \in sections : x.present }
        IN  statsData.t = "object" =>
                /\ out.state = "fulfilled"
                /\ out.json = (IF present # {} /\ \A x \in present : ~x.hasResponse
                               THEN statsData
                               ELSE EmptyObject)

(* C8: checkStatus passes the response through unchanged, body unread,     *)
(* exactly when its status is in [200,300), whatever the redirect flag.    *)
C8_PassThroughRange ==
    \A i \in Invocations("checkStatus") :
        LET response == trace[i].arg.response
            out      == trace[i].out
        IN  (out = ResolveResponse(response)) <=> (response.status \in SuccessRange)

C8_Witness ==
    \E i \in Invocations("checkStatus") :
        /\ trace[i].arg.response.status = 299
        /\ trace[i].arg.response.redirected
        /\ trace[i].out = ResolveResponse(trace[i].arg.response)

(* C9 as stated: deactivateModule never rejects with a typed failure kind,  *)
(* and resolves with the raw response whenever the transport returns one.  *)
C9_NeverTypedFailure ==
    (Settled /\ method = "deactivateModule") =>
        /\ ~(promise.state = "rejected" /\ IsTypedFailure(promise.error))
        /\ TransportOutcome.state = "fulfilled" => promise = TransportOutcome

(* C9, amended: deactivateModule runs neither checkStatus nor              *)
(* parseJsonResponse and never reads the body; when the transport returns  *)
(* a response the call resolves with that raw response, whatever the       *)
(* status; when the transport fails the call rejects with                  *)
(* FetchNetworkError, the only typed failure it can reject with.           *)
C9_DeactivateModuleUnclassified ==
    (Answered /\ method = "deactivateModule") =>
        /\ ~Ran("checkStatus")
        /\ ~Ran("parseJsonResponse")
        /\ \A i \in DOMAIN trace : ~trace[i].out.read
        /\ Settled =>
              IF TransportOutcome.state = "fulfilled"
              THEN promise = TransportOutcome /\ promise.kind = "response"
              ELSE promise = Reject(FetchNetworkError)

C9_Witness ==
    /\ Settled
    /\ method = "deactivateModule"
    /\ TransportOutcome.state = "fulfilled"
    /\ TransportOutcome.response.status = 404
    /\ promise = TransportOutcome

(* C10 as stated: a call that supplies no body never rejects with          *)
(* FetchNetworkError; a transport exception reaches its caller raw.        *)
C10_BodylessNeverNormalized ==
    (Settled /\ ~methods[method].body) =>
        /\ ~Ran("catchNetworkErrors")
        /\ ~(promise.state = "rejected" /\ promise.error.name = "FetchNetworkError")
        /\ TransportOutcome.state = "rejected" => promise = TransportOutcome

(* C10, amended: catchNetworkErrors is attached to every call issued       *)
(* through postRequest, with or without a body, and to no call issued      *)
(* through getRequest: a getRequest call never rejects with                *)
(* FetchNetworkError and a transport exception reaches its caller raw,     *)
(* while verifySiteGoogle (postRequest, no body) rejects with              *)
(* FetchNetworkError when the transport fails.                             *)
C10_GetRequestNeverNormalized ==
    Answered =>
        /\ Ran("catchNetworkErrors") => methods[method].request = "postRequest"
        /\ (Settled /\ methods[method].request = "getRequest") =>
              /\ ~(promise.state = "rejected"
                     /\ promise.error.name = "FetchNetworkError")
              /\ TransportOutcome.state = "rejected" => promise = TransportOutcome
        /\ (Settled /\ method = "verifySiteGoogle"
              /\ TransportOutcome.state = "rejected") =>
              promise = Reject(FetchNetworkError)

C10_Witness ==
    /\ Settled
    /\ methods[method].request = "getRequest"
    /\ TransportOutcome.state = "rejected"
    /\ promise = TransportOutcome

====
